---- MODULE Spec2Model ----
(***************************************************************************)
(* pyoptoma: client-side protocol handler for an Optoma projector on a     *)
(* serial line (src/pyoptoma/__init__.py).                                 *)
(*                                                                         *)
(* Threads: the reader thread (OptomaThread.run) and the caller threads    *)
(* that invoke Projector.get_property / Projector.send_command.  The       *)
(* device and the wall clock are the environment.                          *)
(*                                                                         *)
(* Grain of atomicity: one step per access to shared state of a thread     *)
(* (the serial port, _lastline, _recv_event, _command_lock); the three     *)
(* LockState fields are read and written by __checkLock / __setLock /      *)
(* __unLock in one step per method call.                                   *)
(* _readline reads the bytes that are there in one step, together with the *)
(* routing of a completed frame (its store, or the lookup of its handlers). *)
(***************************************************************************)
EXTENDS Integers, Sequences, FiniteSets, TLC

VARIABLES
    rx,            \* bytes sent by the device, not yet read by _readline
    tx,            \* command frames written to the port, not yet taken by the device
    rpc,           \* reader thread position: "read" | "notify" | "set", or the
                   \* exception that ended run(): "SerialException" | "HandlerError"
                   \* | "UnicodeDecodeError", or its place in send_command when
                   \* a handler calls it: "h_check" ... "h_fetch"
    output,        \* _readline's local accumulator
    line,          \* run()'s local: the frame just completed
    hidx,          \* _notify_event's loop position in event_list (-1: no list)
    lastline,      \* OptomaThread._lastline
    recv_event,    \* OptomaThread._recv_event (threading.Event flag)
    events,        \* Projector._events: event name -> list of handlers
    command_lock,  \* Projector._command_lock: 0 = free, else the holder
                   \* (a caller, or ReaderThread)
    isLocked,      \* Projector._isLocked
    timer,         \* Projector._timer
    operation,     \* Projector._operation
    pc,            \* caller thread position
    op,            \* the facade operation a caller is in
    cmd,           \* its command argument
    response,      \* its local holding what _sendrecv returned
    result,        \* its return value (or the exception it raised)
    now,           \* time.time()
    early,         \* history, kept while a caller is in get_response: the reply
                   \* that was already signalled when it began to wait
    newer,         \* history: a later reply was stored since
    invoked,       \* history: the handlers called so far by the dispatch under way
    delivered,     \* history: the frame in the slot has been returned by a get_response
    fresh          \* history, kept during a round trip: a reply frame was
                   \* completed since the round trip wrote its command

vars == <<rx, tx, rpc, output, line, hidx, lastline, recv_event, events,
          command_lock, isLocked, timer, operation, pc, op, cmd, response, result,
          now, early, newer, invoked, delivered, fresh>>

readerVars == <<rpc, output, line, hidx>>
lockVars   == <<isLocked, timer, operation>>
callerVars == <<pc, op, cmd, response, result>>
histVars   == <<early, newer, invoked, delivered, fresh>>

-----------------------------------------------------------------------------
(* Bounds *)

NumCallers == 2      \* caller threads
MaxPending == 1      \* the device sends a frame while fewer bytes than this are unread
MaxTx      == 1      \* command frames in flight to the device
MaxHandlers == 3     \* handlers subscribed in all
MaxBytes   == 6      \* bytes waiting when the reader starts, where they are drawn
MaxReply   == 4      \* characters of a reply, where replies are drawn

Callers == 1..NumCallers

-----------------------------------------------------------------------------
(* Module constants *)

NUL == "NUL"         \* byte 0x00
CR  == "CR"          \* byte 0x0d
HIGH == "HIGH"       \* a byte 0x80..0xff: alone it is not UTF-8

TURN_ON  == "TURN_ON"
TURN_OFF == "TURN_OFF"
POWER    == "PWR"
SOURCE   == "SOURCE"
BUSY     == "BUSY"

\* Python values that are not strings
PyFalse == "False"
PyNone  == "None"
NoLine  == <<"None">>      \* _lastline = None (no character is named "None")

OPTOMA_COMMANDS ==
    {"TURN_ON", "TURN_OFF", "PWR", "SOURCE", "DISPLAY_MODE", "HDMI1", "HDMI2",
     "VGA", "COMPONENT", "VIDEO", "3D_OFF", "3D_SBS", "3D_TTB", "3D_SEQ"}

SOURCE_LIST == {"HDMI1", "HDMI2", "VGA", "COMPONENT", "VIDEO"}

TIMEOUT_TIMES ==
    [k \in {"TURN_ON", "TURN_OFF", "SOURCE", "ALL"} |->
        CASE k = "TURN_ON"  -> 40
          [] k = "TURN_OFF" -> 60
          [] k = "SOURCE"   -> 2
          [] k = "ALL"      -> 2]

INFO0 == <<"I", "N", "F", "O", "0">>
INFO1 == <<"I", "N", "F", "O", "1">>
INFO2 == <<"I", "N", "F", "O", "2">>

EventNames == {INFO0, INFO1, INFO2}

\* Handlers a client subscribes: two that return, one that raises.
Handlers == {"h1", "h2", "bad"}
Raises(h) == h = "bad"

\* A handler that calls send_command(TURN_ON): it runs on the reader thread.
RoundTripHandler == "rt"
ReaderThread == -1
HandlerPositions ==
    {"h_check", "h_setlock", "h_acquire", "h_write", "h_wait", "h_clear", "h_fetch"}

\* The calls the callers of the model make: a query and a power command;
\* where the clock advances, also the other power command, a source selection
\* and a command outside the enumerated classes.
CoreCalls == { <<"get_property", "PWR">>, <<"send_command", "TURN_ON">> }
TimedCalls ==
    CoreCalls \cup { <<"send_command", "TURN_OFF">>, <<"send_command", "HDMI1">>,
                     <<"send_command", "3D_OFF">> }

\* What the device puts on the wire.
AckWire == { <<"P", CR>> }
ReplyWire == AckWire \cup { <<"F", CR>>, <<NUL, "O", "K", "1", CR>>, <<CR>> }
QuirkWire == { INFO1, <<CR>> }       \* INFO1 comes without its terminator, or
                                    \* with it: then an empty frame follows
UnsolicitedWire == QuirkWire \cup { INFO0 \o <<CR>> }
\* frames that only look like events or replies
OddWire == { <<"I", CR>>, <<"P", "N", "F", "O", "0", CR>>, <<"I", "N", "F", "O", "0", "0", CR>> }

-----------------------------------------------------------------------------
(* OptomaThread._readline as a function of the bytes available: the frame   *)
(* text, whether the frame is complete, and the bytes left unread.          *)

\* byte.decode('utf-8') of one byte: the character, or UnicodeDecodeError
Decodes(byte) == byte # HIGH

RECURSIVE _readline(_, _)
_readline(buf, out) ==
    IF buf = <<>>
    THEN [done |-> FALSE, raised |-> FALSE, output |-> out, rest |-> <<>>]
    ELSE LET byte == Head(buf) IN
         IF byte = CR
         THEN [done |-> TRUE, raised |-> FALSE, output |-> out, rest |-> Tail(buf)]
         ELSE IF byte # NUL /\ ~Decodes(byte)
         THEN [done |-> FALSE, raised |-> TRUE, output |-> out, rest |-> Tail(buf)]
         ELSE LET out2 == IF byte # NUL THEN Append(out, byte) ELSE out IN
              IF out2 = INFO1
              THEN [done |-> TRUE, raised |-> FALSE, output |-> out2, rest |-> Tail(buf)]
              ELSE _readline(Tail(buf), out2)

\* the routing test without its length condition
IsEventAnyLength(l) == Len(l) > 0 /\ l[1] = "I"

\* run(): the test that routes a frame to the event dispatcher
IsEvent(l) == Len(l) = 5 /\ l[1] = "I"

\* Projector.__setLock: the value assigned to _operation; the name ALL is
\* bound nowhere in the module, so the else branch raises NameError.
NameError == "NameError"
SetLockOperation(command) ==
    IF command \in {TURN_ON, TURN_OFF} THEN command
    ELSE IF command \in SOURCE_LIST THEN SOURCE
    ELSE NameError

\* the expiry test with the boundary second counted as expired
ExpiredAtTimeout == (now - timer) >= TIMEOUT_TIMES[operation]

\* Projector.__checkLock: has the pending lock expired
Expired == (now - timer) > TIMEOUT_TIMES[operation]
CheckLock == isLocked /\ ~Expired

\* Projector.get_property: decoding of the response
SOURCE_MAP(r) ==
    CASE r = <<"O", "K", "0", "0">> -> PyNone
      [] r = <<"O", "K", "0", "2">> -> "VGA"
      [] r = <<"O", "K", "0", "5">> -> "VIDEO"
      [] r = <<"O", "K", "0", "7">> -> "HDMI1"
      [] r = <<"O", "K", "0", "8">> -> "HDMI2"
      [] r = <<"O", "K", "1", "1">> -> "COMPONENT"
      [] OTHER -> PyNone

\* the decoding with the empty reply answered as a busy device
DecodePropertyEmptyBusy(command, resp) ==
    IF resp = <<>> \/ resp = NoLine THEN BUSY
    ELSE IF command = "PWR" /\ Len(resp) = 3 /\ resp[3] = "1" THEN "on"
    ELSE IF command = "PWR" /\ Len(resp) = 3 /\ resp[3] = "0" THEN "off"
    ELSE IF command = "SOURCE" /\ Len(resp) = 4 THEN SOURCE_MAP(resp)
    ELSE PyNone

DecodeProperty(command, resp) ==
    IF resp = <<>> \/ resp = NoLine THEN PyFalse
    ELSE IF command = "PWR" /\ Len(resp) = 3 /\ resp[3] = "1" THEN "on"
    ELSE IF command = "PWR" /\ Len(resp) = 3 /\ resp[3] = "0" THEN "off"
    ELSE IF command = "SOURCE" /\ Len(resp) = 4 THEN SOURCE_MAP(resp)
    ELSE PyNone

\* Projector.send_command: decoding of the acknowledgment
DecodeAck(resp) ==
    IF resp = <<"P">> THEN "OK"
    ELSE IF resp = <<"F">> THEN "BUSY"
    ELSE PyNone

\* The values the clock is read at: each timeout and the second after it.
Instants ==
    UNION { {t, t + 1} : t \in {0} \cup {TIMEOUT_TIMES[k] : k \in DOMAIN TIMEOUT_TIMES} }

-----------------------------------------------------------------------------
Init ==
    /\ rx = <<>>
    /\ tx = <<>>
    /\ rpc = "read"
    /\ output = <<>>
    /\ line = <<>>
    /\ hidx = 0
    /\ lastline = NoLine
    /\ recv_event = FALSE
    /\ events = [e \in {} |-> <<>>]
    /\ command_lock = 0
    /\ isLocked = FALSE
    /\ timer = 0
    /\ operation = PyFalse
    /\ pc = [c \in Callers |-> "idle"]
    /\ op = [c \in Callers |-> "none"]
    /\ cmd = [c \in Callers |-> "none"]
    /\ response = [c \in Callers |-> NoLine]
    /\ result = [c \in Callers |-> "none"]
    /\ now = 0
    /\ early = [c \in Callers |-> NoLine]
    /\ newer = [c \in Callers |-> FALSE]
    /\ invoked = <<>>
    /\ delivered = FALSE
    /\ fresh = [c \in Callers |-> FALSE]

-----------------------------------------------------------------------------
(* Environment: the device, the transport, the clock *)

\* the device answers the oldest command on the wire
DeviceReply(f) ==
    /\ tx # <<>>
    /\ Len(rx) < MaxPending
    /\ tx' = Tail(tx)
    /\ rx' = rx \o f
    /\ UNCHANGED <<readerVars, lastline, recv_event, events, command_lock,
                   lockVars, callerVars, now, histVars>>

\* the device sends a frame nobody asked for
DeviceUnsolicited(f) ==
    /\ Len(rx) < MaxPending
    /\ rx' = rx \o f
    /\ UNCHANGED <<tx, readerVars, lastline, recv_event, events, command_lock,
                   lockVars, callerVars, now, histVars>>

Tick ==
    /\ \E t \in Instants : t > now /\ now' = t
    /\ UNCHANGED <<rx, tx, readerVars, lastline, recv_event, events,
                   command_lock, lockVars, callerVars, histVars>>

-----------------------------------------------------------------------------
(* The reader thread: OptomaThread.run *)

\* line = self._readline(); an event frame goes to _notify_event, which looks
\* up its handler list; any other frame is stored: self._lastline = line;
\* a byte that does not decode raises out of _readline and run()
ReaderRead ==
    /\ rpc = "read"
    /\ rx # <<>>
    /\ LET r == _readline(rx, output) IN
       /\ rx' = r.rest
       /\ IF r.raised
          THEN /\ rpc' = "UnicodeDecodeError"
               /\ output' = r.output
               /\ UNCHANGED <<line, hidx, lastline>>
          ELSE IF ~r.done
          THEN /\ output' = r.output
               /\ UNCHANGED <<rpc, line, hidx, lastline>>
          ELSE /\ output' = <<>>
               /\ IF IsEvent(r.output)
                  THEN /\ line' = r.output
                       /\ hidx' = IF r.output \in DOMAIN events THEN 0 ELSE -1
                       /\ rpc' = "notify"
                       /\ UNCHANGED lastline
                  ELSE /\ line' = <<>>
                       /\ hidx' = 0
                       /\ lastline' = r.output
                       /\ rpc' = "set"
    /\ newer' = [c \in Callers |->
                    IF /\ rpc' = "set"
                       /\ pc[c] \in {"wait", "clear", "fetch"}
                       /\ early[c] # NoLine
                    THEN TRUE ELSE newer[c]]
    /\ fresh' = [c \in Callers |->
                    IF rpc' = "set" /\ pc[c] \in {"wait", "clear", "fetch"}
                    THEN TRUE ELSE fresh[c]]
    /\ delivered' = IF rpc' = "set" THEN FALSE ELSE delivered
    /\ UNCHANGED <<tx, recv_event, events, command_lock, lockVars, callerVars,
                   now, early, invoked>>

\* self._serial.read raises (the line broke): the exception leaves run() and
\* the thread ends
ReaderReadFails ==
    /\ rpc = "read"
    /\ rpc' = "SerialException"
    /\ UNCHANGED <<rx, tx, output, line, hidx, lastline, recv_event, events,
                   command_lock, lockVars, callerVars, now, histVars>>

\* _notify_event's event_list: None (hidx = -1) if the name had no list when
\* it was looked up, else the list, which later subscriptions extend
EventList == IF hidx >= 0 /\ line \in DOMAIN events THEN events[line] ELSE <<>>

\* _notify_event: for handler in event_list: handler(), one call per step;
\* then run() continues
ReaderNotify ==
    /\ rpc = "notify"
    /\ IF hidx >= 0 /\ hidx < Len(EventList)
       THEN /\ invoked' = Append(invoked, EventList[hidx + 1])
            /\ IF Raises(EventList[hidx + 1])
               THEN rpc' = "HandlerError" /\ UNCHANGED <<hidx, line>>
               ELSE IF EventList[hidx + 1] = RoundTripHandler
               THEN rpc' = "h_check" /\ UNCHANGED <<hidx, line>>
               ELSE hidx' = hidx + 1 /\ UNCHANGED <<rpc, line>>
       ELSE rpc' = "read" /\ hidx' = 0 /\ line' = <<>> /\ invoked' = <<>>
    /\ UNCHANGED <<rx, tx, output, lastline, recv_event, events,
                   command_lock, lockVars, callerVars, now, early, newer,
                   delivered, fresh>>

\* self._recv_event.set()
ReaderSet ==
    /\ rpc = "set"
    /\ recv_event' = TRUE
    /\ rpc' = "read"
    /\ UNCHANGED <<rx, tx, output, line, hidx, lastline, events,
                   command_lock, lockVars, callerVars, now, histVars>>

Reader == ReaderRead \/ ReaderNotify \/ ReaderSet

-----------------------------------------------------------------------------
(* A handler that calls send_command(TURN_ON), step by step on the reader   *)
(* thread; when it returns, _notify_event's loop goes on.                   *)

\* if self.__checkLock(): return False
HandlerCheck ==
    /\ rpc = "h_check"
    /\ IF CheckLock
       THEN rpc' = "notify" /\ hidx' = hidx + 1 /\ UNCHANGED lockVars
       ELSE /\ IF isLocked
               THEN operation' = PyFalse /\ timer' = 0 /\ isLocked' = FALSE
               ELSE UNCHANGED lockVars
            /\ rpc' = "h_setlock" /\ UNCHANGED hidx
    /\ UNCHANGED <<rx, tx, output, line, lastline, recv_event, events,
                   command_lock, callerVars, now, histVars>>

\* self.__setLock(command)
HandlerSetLock ==
    /\ rpc = "h_setlock"
    /\ operation' = SetLockOperation(TURN_ON)
    /\ isLocked' = TRUE
    /\ timer' = now
    /\ rpc' = "h_acquire"
    /\ UNCHANGED <<rx, tx, output, line, hidx, lastline, recv_event, events,
                   command_lock, callerVars, now, histVars>>

\* _sendrecv: with self._command_lock:
HandlerAcquire ==
    /\ rpc = "h_acquire"
    /\ command_lock = 0
    /\ command_lock' = ReaderThread
    /\ rpc' = "h_write"
    /\ UNCHANGED <<rx, tx, output, line, hidx, lastline, recv_event, events,
                   lockVars, callerVars, now, histVars>>

\* _sendrecv: self._serial.write(...)
HandlerWrite ==
    /\ rpc = "h_write"
    /\ Len(tx) < MaxTx
    /\ tx' = Append(tx, TURN_ON)
    /\ rpc' = "h_wait"
    /\ UNCHANGED <<rx, output, line, hidx, lastline, recv_event, events,
                   command_lock, lockVars, callerVars, now, histVars>>

\* get_response: self._recv_event.wait()
HandlerWait ==
    /\ rpc = "h_wait"
    /\ recv_event
    /\ rpc' = "h_clear"
    /\ UNCHANGED <<rx, tx, output, line, hidx, lastline, recv_event, events,
                   command_lock, lockVars, callerVars, now, histVars>>

\* get_response: self._recv_event.clear()
HandlerClear ==
    /\ rpc = "h_clear"
    /\ recv_event' = FALSE
    /\ rpc' = "h_fetch"
    /\ UNCHANGED <<rx, tx, output, line, hidx, lastline, events,
                   command_lock, lockVars, callerVars, now, histVars>>

\* get_response returns self._lastline, send_command returns, and so does
\* the handler
HandlerFetch ==
    /\ rpc = "h_fetch"
    /\ command_lock' = 0
    /\ rpc' = "notify"
    /\ hidx' = hidx + 1
    /\ delivered' = TRUE
    /\ UNCHANGED <<rx, tx, output, line, lastline, recv_event, events,
                   lockVars, callerVars, now, early, newer, invoked, fresh>>

HandlerRoundTrip ==
    \/ HandlerCheck \/ HandlerSetLock \/ HandlerAcquire \/ HandlerWrite
    \/ HandlerWait \/ HandlerClear \/ HandlerFetch

-----------------------------------------------------------------------------
(* Subscription: powered_off / powering_on / powering_off -> _add_event *)

\* the number of handlers in the lists of the given event names
RECURSIVE Subscribed(_)
Subscribed(names) ==
    IF names = {} THEN 0
    ELSE LET e == CHOOSE x \in names : TRUE IN
         Len(events[e]) + Subscribed(names \ {e})

_add_event(event_name, handler) ==
    /\ Subscribed(DOMAIN events) < MaxHandlers
    /\ events' = IF event_name \in DOMAIN events
                 THEN [events EXCEPT ![event_name] = Append(@, handler)]
                 ELSE [e \in DOMAIN events \cup {event_name} |->
                          IF e = event_name THEN <<handler>> ELSE events[e]]
    /\ UNCHANGED <<rx, tx, readerVars, lastline, recv_event, command_lock,
                   lockVars, callerVars, now, histVars>>

Subscribe == \E e \in EventNames, h \in Handlers : _add_event(e, h)

-----------------------------------------------------------------------------------------------------------------------------------------------------
(* Caller threads: Projector.get_property and Projector.send_command *)

Call(c, calls) ==
    /\ pc[c] = "idle"
    /\ \E k \in calls :
          /\ k[2] \in OPTOMA_COMMANDS
          /\ op' = [op EXCEPT ![c] = k[1]]
          /\ cmd' = [cmd EXCEPT ![c] = k[2]]
    /\ pc' = [pc EXCEPT ![c] = "check"]
    /\ UNCHANGED <<rx, tx, readerVars, lastline, recv_event, events,
                   command_lock, lockVars, response, result, now, histVars>>

\* the value each operation returns when __checkLock() is true
BusyResult(o) == IF o = "get_property" THEN BUSY ELSE PyFalse

\* Check as it would be if the busy branch did not return
CheckFallsThrough(c) ==
    /\ pc[c] = "check"
    /\ IF isLocked /\ ~CheckLock
       THEN /\ operation' = PyFalse
            /\ timer' = 0
            /\ isLocked' = FALSE
       ELSE UNCHANGED lockVars
    /\ pc' = [pc EXCEPT ![c] =
                IF op[c] = "send_command" THEN "setlock" ELSE "acquire"]
    /\ UNCHANGED <<rx, tx, readerVars, lastline, recv_event, events,
                   command_lock, op, cmd, response, result, now, histVars>>

\* Check as it would be if a check that is not busy restarted the timer
CheckRestartsTimer(c) ==
    /\ pc[c] = "check"
    /\ IF CheckLock
       THEN /\ result' = [result EXCEPT ![c] = BusyResult(op[c])]
            /\ pc' = [pc EXCEPT ![c] = "done"]
            /\ UNCHANGED lockVars
       ELSE /\ operation' = PyFalse
            /\ timer' = now
            /\ isLocked' = FALSE
            /\ pc' = [pc EXCEPT ![c] =
                        IF op[c] = "send_command" THEN "setlock" ELSE "acquire"]
            /\ UNCHANGED result
    /\ UNCHANGED <<rx, tx, readerVars, lastline, recv_event, events,
                   command_lock, op, cmd, response, now, histVars>>

\* if self.__checkLock(): return ...   (with __unLock on expiry)
Check(c) ==
    /\ pc[c] = "check"
    /\ IF CheckLock
       THEN /\ result' = [result EXCEPT ![c] = BusyResult(op[c])]
            /\ pc' = [pc EXCEPT ![c] = "done"]
            /\ UNCHANGED lockVars
       ELSE /\ IF isLocked
               THEN /\ operation' = PyFalse
                    /\ timer' = 0
                    /\ isLocked' = FALSE
               ELSE UNCHANGED lockVars
            /\ pc' = [pc EXCEPT ![c] =
                        IF op[c] = "send_command" THEN "setlock" ELSE "acquire"]
            /\ UNCHANGED result
    /\ UNCHANGED <<rx, tx, readerVars, lastline, recv_event, events,
                   command_lock, op, cmd, response, now, histVars>>

\* self.__setLock(command)
SetLock(c) ==
    /\ pc[c] = "setlock"
    /\ IF SetLockOperation(cmd[c]) = NameError
       THEN /\ result' = [result EXCEPT ![c] = NameError]
            /\ pc' = [pc EXCEPT ![c] = "done"]
            /\ UNCHANGED lockVars
       ELSE /\ operation' = SetLockOperation(cmd[c])
            /\ isLocked' = TRUE
            /\ timer' = now
            /\ pc' = [pc EXCEPT ![c] = "acquire"]
            /\ UNCHANGED result
    /\ UNCHANGED <<rx, tx, readerVars, lastline, recv_event, events,
                   command_lock, op, cmd, response, now, histVars>>

\* Acquire as it would be if _sendrecv did not take the lock
AcquireUnguarded(c) ==
    /\ pc[c] = "acquire"
    /\ command_lock' = c
    /\ pc' = [pc EXCEPT ![c] = "write"]
    /\ UNCHANGED <<rx, tx, readerVars, lastline, recv_event, events,
                   lockVars, op, cmd, response, result, now, histVars>>

\* _sendrecv: with self._command_lock:
Acquire(c) ==
    /\ pc[c] = "acquire"
    /\ command_lock = 0
    /\ command_lock' = c
    /\ pc' = [pc EXCEPT ![c] = "write"]
    /\ UNCHANGED <<rx, tx, readerVars, lastline, recv_event, events,
                   lockVars, op, cmd, response, result, now, histVars>>

\* Write as it would be if get_response began by clearing the event
WriteThenClear(c) ==
    /\ pc[c] = "write"
    /\ Len(tx) < MaxTx
    /\ tx' = Append(tx, cmd[c])
    /\ pc' = [pc EXCEPT ![c] = "wait"]
    /\ early' = [early EXCEPT ![c] = IF recv_event THEN lastline ELSE NoLine]
    /\ recv_event' = FALSE
    /\ UNCHANGED <<rx, readerVars, lastline, events,
                   command_lock, lockVars, op, cmd, response, result, now, newer,
                   invoked, delivered, fresh>>

\* _sendrecv: self._serial.write(command.encode('utf-8')); the caller goes on
\* to get_response
Write(c) ==
    /\ pc[c] = "write"
    /\ Len(tx) < MaxTx
    /\ tx' = Append(tx, cmd[c])
    /\ pc' = [pc EXCEPT ![c] = "wait"]
    /\ early' = [early EXCEPT ![c] = IF recv_event THEN lastline ELSE NoLine]
    /\ UNCHANGED <<rx, readerVars, lastline, recv_event, events,
                   command_lock, lockVars, op, cmd, response, result, now, newer,
                   invoked, delivered, fresh>>

\* get_response: self._recv_event.wait()
Wait(c) ==
    /\ pc[c] = "wait"
    /\ recv_event
    /\ pc' = [pc EXCEPT ![c] = "clear"]
    /\ UNCHANGED <<rx, tx, readerVars, lastline, recv_event, events,
                   command_lock, lockVars, op, cmd, response, result, now, histVars>>

\* get_response: self._recv_event.clear()
Clear(c) ==
    /\ pc[c] = "clear"
    /\ recv_event' = FALSE
    /\ pc' = [pc EXCEPT ![c] = "fetch"]
    /\ UNCHANGED <<rx, tx, readerVars, lastline, events,
                   command_lock, lockVars, op, cmd, response, result, now, histVars>>

\* Fetch as it would be if _sendrecv returned without releasing its lock
FetchKeepsLock(c) ==
    /\ pc[c] = "fetch"
    /\ response' = [response EXCEPT ![c] = lastline]
    /\ result' = [result EXCEPT ![c] =
                    IF op[c] = "get_property"
                    THEN DecodeProperty(cmd[c], lastline)
                    ELSE DecodeAck(lastline)]
    /\ pc' = [pc EXCEPT ![c] = "done"]
    /\ early' = [early EXCEPT ![c] = NoLine]
    /\ newer' = [newer EXCEPT ![c] = FALSE]
    /\ fresh' = [fresh EXCEPT ![c] = FALSE]
    /\ delivered' = TRUE
    /\ UNCHANGED <<rx, tx, readerVars, lastline, recv_event, events,
                   command_lock, lockVars, op, cmd, now, invoked>>

\* Fetch as it would be if the acknowledgment 'F' released the busy lock
FetchUnlocksOnFailure(c) ==
    /\ pc[c] = "fetch"
    /\ command_lock' = 0
    /\ response' = [response EXCEPT ![c] = lastline]
    /\ result' = [result EXCEPT ![c] =
                    IF op[c] = "get_property"
                    THEN DecodeProperty(cmd[c], lastline)
                    ELSE DecodeAck(lastline)]
    /\ IF op[c] = "send_command" /\ lastline = <<"F">>
       THEN operation' = PyFalse /\ timer' = 0 /\ isLocked' = FALSE
       ELSE UNCHANGED lockVars
    /\ pc' = [pc EXCEPT ![c] = "done"]
    /\ early' = [early EXCEPT ![c] = NoLine]
    /\ newer' = [newer EXCEPT ![c] = FALSE]
    /\ fresh' = [fresh EXCEPT ![c] = FALSE]
    /\ delivered' = TRUE
    /\ UNCHANGED <<rx, tx, readerVars, lastline, recv_event, events,
                   op, cmd, now, invoked>>

\* get_response: return self._lastline; _sendrecv returns it and leaves the
\* with block; the operation decodes it and returns
Fetch(c) ==
    /\ pc[c] = "fetch"
    /\ command_lock' = 0
    /\ response' = [response EXCEPT ![c] = lastline]
    /\ result' = [result EXCEPT ![c] =
                    IF op[c] = "get_property"
                    THEN DecodeProperty(cmd[c], lastline)
                    ELSE DecodeAck(lastline)]
    /\ pc' = [pc EXCEPT ![c] = "done"]
    /\ early' = [early EXCEPT ![c] = NoLine]
    /\ newer' = [newer EXCEPT ![c] = FALSE]
    /\ fresh' = [fresh EXCEPT ![c] = FALSE]
    /\ delivered' = TRUE
    /\ UNCHANGED <<rx, tx, readerVars, lastline, recv_event, events,
                   lockVars, op, cmd, now, invoked>>

\* the caller has its answer and is free to call again
Return(c) ==
    /\ pc[c] = "done"
    /\ pc' = [pc EXCEPT ![c] = "idle"]
    /\ op' = [op EXCEPT ![c] = "none"]
    /\ cmd' = [cmd EXCEPT ![c] = "none"]
    /\ response' = [response EXCEPT ![c] = NoLine]
    /\ result' = [result EXCEPT ![c] = "none"]
    /\ UNCHANGED <<rx, tx, readerVars, lastline, recv_event, events,
                   command_lock, lockVars, now, histVars>>

Caller(c, calls) ==
    \/ Call(c, calls) \/ Check(c) \/ SetLock(c) \/ Acquire(c) \/ Write(c)
    \/ Wait(c) \/ Clear(c) \/ Fetch(c) \/ Return(c)

-----------------------------------------------------------------------------
(* Specifications *)

\* The callers, the reader and the device, within one reading of the clock,
\* with no handler subscribed and a transport that does not fail.
Next ==
    \/ \E f \in AckWire : DeviceReply(f)
    \/ \E f \in QuirkWire : DeviceUnsolicited(f)
    \/ Reader
    \/ \E c \in Callers : Caller(c, CoreCalls)

Spec == Init /\ [][Next]_vars

\* The same with a transport that can fail, and with the threads scheduled:
\* a thread that can take a step of its code takes it (a failing read and a
\* new call are not owed to anybody).
NextFail == Next \/ ReaderReadFails

FairSpec ==
    /\ Init /\ [][NextFail]_vars
    /\ WF_vars(Reader)
    /\ \A c \in Callers :
          /\ WF_vars(Check(c) \/ SetLock(c) \/ Write(c) \/ Wait(c)
                       \/ Clear(c) \/ Fetch(c) \/ Return(c))
          /\ SF_vars(Acquire(c))

\* One caller, the reader and the device, with the clock advancing.
NextLock ==
    \/ \E f \in ReplyWire : DeviceReply(f)
    \/ \E f \in UnsolicitedWire : DeviceUnsolicited(f)
    \/ Reader
    \/ Tick
    \/ Caller(1, TimedCalls)

SpecLock == Init /\ [][NextLock]_vars

\* The reader, the device and the subscriptions, with no caller.
NextEvents ==
    \/ \E f \in ReplyWire \cup UnsolicitedWire \cup OddWire : DeviceUnsolicited(f)
    \/ Reader
    \/ Subscribe

SpecEvents == Init /\ [][NextEvents]_vars

\* A device that sends one reply frame for each command written and, unasked,
\* only event frames; no handler, a transport that does not fail; every
\* thread that can take a step of its code takes it, and the device does
\* send its reply, whatever else it sends.
\* threading.Lock does not say which thread gets a lock that is released:
\* taking the lock is only weakly fair.
NextProgress ==
    \/ \E f \in AckWire : DeviceReply(f)
    \/ DeviceUnsolicited(INFO0 \o <<CR>>)
    \/ Reader
    \/ \E c \in Callers : Caller(c, CoreCalls)

FairProgress ==
    /\ Init /\ [][NextProgress]_vars
    /\ WF_vars(Reader)
    /\ SF_vars(\E f \in AckWire : DeviceReply(f))
    /\ \A c \in Callers :
          WF_vars(Check(c) \/ SetLock(c) \/ Acquire(c) \/ Write(c) \/ Wait(c)
                    \/ Clear(c) \/ Fetch(c) \/ Return(c))

\* The reader, the device and handlers of INFO1 that call send_command, with
\* no caller thread.
NextInline ==
    \/ \E f \in AckWire : DeviceReply(f)
    \/ \E f \in QuirkWire : DeviceUnsolicited(f)
    \/ Reader
    \/ HandlerRoundTrip
    \/ \E h \in {"h1", RoundTripHandler} : _add_event(INFO1, h)

SpecInline == Init /\ [][NextInline]_vars

\* The reader alone, started on any bytes the device has already sent.
Bytes == {NUL, CR, HIGH, "I", "N", "F", "O", "1"}
ByteSeqs == UNION { [1..n -> Bytes] : n \in 0..MaxBytes }

InitReadline ==
    /\ rx \in ByteSeqs
    /\ tx = <<>> /\ rpc = "read" /\ output = <<>> /\ line = <<>> /\ hidx = 0
    /\ lastline = NoLine /\ recv_event = FALSE /\ events = [e \in {} |-> <<>>]
    /\ command_lock = 0 /\ isLocked = FALSE /\ timer = 0 /\ operation = PyFalse
    /\ pc = [c \in Callers |-> "idle"] /\ op = [c \in Callers |-> "none"]
    /\ cmd = [c \in Callers |-> "none"] /\ response = [c \in Callers |-> NoLine]
    /\ result = [c \in Callers |-> "none"] /\ now = 0
    /\ early = [c \in Callers |-> NoLine] /\ newer = [c \in Callers |-> FALSE]
    /\ invoked = <<>>
    /\ delivered = FALSE /\ fresh = [c \in Callers |-> FALSE]

SpecReadline == InitReadline /\ [][Reader]_vars

\* One caller querying, with any reply stored and signalled.
ReplyChars == {"O", "K", "0", "1", "7", "9"}
Replies == UNION { [1..n -> ReplyChars] : n \in 0..MaxReply }
QueryCalls == { <<"get_property", "PWR">>, <<"get_property", "SOURCE">> }

InitDecode ==
    /\ lastline \in Replies
    /\ recv_event = TRUE
    /\ rx = <<>> /\ tx = <<>> /\ rpc = "read" /\ output = <<>> /\ line = <<>>
    /\ hidx = 0 /\ events = [e \in {} |-> <<>>]
    /\ command_lock = 0 /\ isLocked = FALSE /\ timer = 0 /\ operation = PyFalse
    /\ pc = [c \in Callers |-> "idle"] /\ op = [c \in Callers |-> "none"]
    /\ cmd = [c \in Callers |-> "none"] /\ response = [c \in Callers |-> NoLine]
    /\ result = [c \in Callers |-> "none"] /\ now = 0
    /\ early = [c \in Callers |-> NoLine] /\ newer = [c \in Callers |-> FALSE]
    /\ invoked = <<>>
    /\ delivered = FALSE /\ fresh = [c \in Callers |-> FALSE]

NextDecode ==
    \/ Call(1, QueryCalls) \/ Check(1) \/ Acquire(1) \/ Write(1)
    \/ Wait(1) \/ Clear(1) \/ Fetch(1) \/ Return(1)

SpecDecode == InitDecode /\ [][NextDecode]_vars

-----------------------------------------------------------------------------
(* Properties *)

\* C1: round trips exclude each other: at most one caller is between taking
\* the serialization lock and returning from get_response, it is the holder
\* of the lock, and so no frame is written while a request awaits its reply.
C1_RoundTripExclusion ==
    /\ Cardinality({c \in Callers : pc[c] \in {"write", "wait", "clear", "fetch"}}) <= 1
    /\ \A c \in Callers :
          pc[c] \in {"write", "wait", "clear", "fetch"} => command_lock = c

\* C1 witness: one caller waits for its reply while another caller wants the lock
C1_Witness ==
    \E c, d \in Callers : c # d /\ pc[c] = "wait" /\ pc[d] = "acquire"

\* a send_command call that has written its frame
WroteCommand(c) ==
    /\ op[c] = "send_command"
    /\ \/ pc[c] \in {"wait", "clear", "fetch"}
       \/ pc[c] = "done" /\ result[c] \notin {PyFalse, NameError}

\* C2: the acquire step of send_command runs with the serialization lock
\* held, so check, acquire and write of one call are not interleaved with
\* another caller's; stated by its consequence: two concurrent send_command
\* calls never both pass the busy check and both write their frame inside
\* one busy window.
C2_NoDoubleWrite ==
    \A c, d \in Callers :
       c # d /\ isLocked /\ ~Expired => ~(WroteCommand(c) /\ WroteCommand(d))

C4_FrameRouting ==
    [][ /\ (rpc = "read" /\ rpc' \in {"notify", "set"}) =>
             LET f == _readline(rx, output).output IN
             IF Len(f) = 5 /\ Head(f) = "I"
             THEN rpc' = "notify" /\ line' = f /\ UNCHANGED <<lastline, recv_event>>
             ELSE rpc' = "set" /\ lastline' = f
        /\ rpc = "notify" => rpc' # "set" /\ UNCHANGED <<lastline, recv_event>>
        /\ (rpc = "set" /\ rpc' # "set") =>
             rpc' = "read" /\ recv_event' /\ UNCHANGED lastline
      ]_vars

\* C4 witness: a 5-character frame that does not start with 'I' sits in the
\* reply slot, signalled, while an event frame is being dispatched
C4_Witness ==
    /\ rpc = "notify" /\ line = INFO0
    /\ lastline = <<"P", "N", "F", "O", "0">> /\ recv_event

\* the timeout of each class as the claim gives it
ClaimedTimeout(class) ==
    CASE class = "TURN_ON"  -> 40
      [] class = "TURN_OFF" -> 60
      [] class = "SOURCE"   -> 2
      [] OTHER              -> 2

\* C5: lazy expiry: a check() made while now - start <= T (T the timeout of
\* the locked class) returns busy and leaves class and start time as they
\* are; a check() made when now - start > T returns not-busy and leaves the
\* state Unlocked.
C5_LazyExpiry ==
    [][ \A c \in Callers :
          (pc[c] = "check" /\ pc'[c] # "check" /\ isLocked) =>
             IF now - timer <= ClaimedTimeout(operation)
             THEN /\ pc'[c] = "done"
                  /\ result'[c] = BusyResult(op[c])
                  /\ isLocked' /\ operation' = operation /\ timer' = timer
             ELSE /\ pc'[c] \in {"setlock", "acquire"}
                  /\ ~isLocked'
      ]_vars

\* C5 witness: a check made exactly 40 s after TURN_ON was locked returned busy
C5_Witness ==
    \E c \in Callers :
       /\ pc[c] = "done" /\ result[c] = BusyResult(op[c])
       /\ isLocked /\ operation = TURN_ON /\ now - timer = 40

\* C6: a rejected operation has no effect: when the lock state machine
\* reports busy, the call returns at once, and the transport, the
\* serialization lock, the reply slot and LockState are as they were.
C6_RejectedHasNoEffect ==
    [][ \A c \in Callers :
          (pc[c] = "check" /\ pc'[c] # "check"
             /\ isLocked /\ now - timer <= TIMEOUT_TIMES[operation]) =>
             /\ pc'[c] = "done"
             /\ result'[c] \in {BUSY, PyFalse}
             /\ UNCHANGED <<tx, rx, command_lock, lastline, recv_event, lockVars>>
      ]_vars

\* C6 witness: a get_property was rejected while a lock is pending
C6_Witness ==
    \E c \in Callers :
       /\ pc[c] = "done" /\ op[c] = "get_property" /\ result[c] = BUSY
       /\ isLocked /\ tx = <<>>

\* C7: send_command(TURN_ON) locks with class TURN_ON; with acknowledgment
\* 'P' it returns the success result; a send_command checked while that lock
\* is within its timeout returns the Busy result, the one a rejected
\* get_property returns.
C7_SecondCommandBusy ==
    [][ \A c \in Callers : op[c] = "send_command" =>
          /\ (pc[c] = "setlock" /\ pc'[c] # "setlock" /\ cmd[c] = TURN_ON) =>
                isLocked' /\ operation' = TURN_ON
          /\ (pc[c] = "fetch" /\ pc'[c] = "done" /\ lastline = <<"P">>) =>
                result'[c] = "OK"
          /\ (pc[c] = "check" /\ pc'[c] # "check" /\ isLocked
                /\ operation = TURN_ON /\ now - timer <= 40) =>
                pc'[c] = "done" /\ result'[c] = BusyResult("get_property")
      ]_vars

\* C8: for a command that is neither TURN_ON, TURN_OFF nor a source
\* selection, the acquire step of send_command completes, and leaves the
\* state Locked with the Generic class (timeout 2 s) and the current time.
C8_GenericAcquire ==
    [][ \A c \in Callers :
          (pc[c] = "setlock" /\ pc'[c] # "setlock"
             /\ cmd[c] \notin {TURN_ON, TURN_OFF} \cup SOURCE_LIST) =>
             /\ pc'[c] = "acquire"
             /\ isLocked' /\ operation' = "ALL" /\ timer' = now
             /\ TIMEOUT_TIMES[operation'] = 2
      ]_vars

\* C9: a handler that raises during dispatch never stops the reader: run()
\* is never ended by a handler's error.
C9_ReaderSurvivesHandler == rpc # "HandlerError"

\* C10: a caller that is blocked in get_response when the transport read has
\* failed is eventually unblocked, and the serialization lock it holds is
\* eventually released.
C10_UnblockedOnTransportFailure ==
    \A c \in Callers :
       (rpc = "SerialException" /\ pc[c] = "wait") ~>
          (pc[c] # "wait" /\ command_lock # c)

\* one list is the beginning of the other
IsPrefix(s, t) == Len(s) <= Len(t) /\ SubSeq(t, 1, Len(s)) = s

\* C11: a dispatch of an event name that had a handler list when it was
\* looked up has, when it ends, called every handler of that list once, in
\* the order of subscription, and no other handler; and a subscription only
\* ever appends to a list: the registry never loses a handler.
C11_DispatchComplete ==
    [][ /\ (rpc = "notify" /\ rpc' # "notify" /\ hidx >= 0) =>
             (IF rpc' = "read" THEN invoked ELSE invoked') = events[line]
        /\ \A e \in DOMAIN events :
              e \in DOMAIN events' /\ IsPrefix(events[e], events'[e])
      ]_vars

\* the text of a run of bytes: the 0x00 bytes dropped
Strip(bs) == SelectSeq(bs, LAMBDA b : b # NUL)

\* where the frame that begins the unread bytes ends: at the first 0x0D, or
\* at the byte that makes the text 'INFO1' (0: the frame is not complete)
FrameEnd ==
    LET ends == {k \in 1..Len(rx) :
                   \/ rx[k] = CR
                   \/ Strip(output \o SubSeq(rx, 1, k)) = INFO1}
    IN IF ends = {} THEN 0 ELSE CHOOSE k \in ends : \A j \in ends : k <= j

\* C12: for every run of bytes, _readline returns the bytes up to, not
\* including, the first 0x0D, with every 0x00 removed; except that it returns
\* 'INFO1' as soon as the text read is 'INFO1', and reads no byte beyond it;
\* that frame is classified as an event.  Until a frame ends it returns
\* nothing and keeps the text.
C12_FrameDecoding ==
    [][ (rpc = "read" /\ rx # <<>> /\ <<rpc, rx, output>>' # <<rpc, rx, output>>) =>
          LET k == FrameEnd IN
          IF k = 0
          THEN rpc' = "read" /\ rx' = <<>> /\ output' = Strip(output \o rx)
          ELSE LET text == Strip(output \o SubSeq(rx, 1, IF rx[k] = CR THEN k - 1 ELSE k))
               IN /\ rpc' \in {"notify", "set"}
                  /\ (IF rpc' = "notify" THEN line' ELSE lastline') = text
                  /\ rx' = SubSeq(rx, k + 1, Len(rx))
                  /\ text = INFO1 => rpc' = "notify"
      ]_vars

\* the result the claim gives for a reply to a query
ClaimedProperty(command, reply) ==
    IF Len(reply) = 0 THEN PyFalse
    ELSE CASE command = "PWR" ->
                 IF Len(reply) = 3 /\ reply[3] \in {"0", "1"}
                 THEN (IF reply[3] = "1" THEN "on" ELSE "off")
                 ELSE PyNone
           [] command = "SOURCE" /\ Len(reply) = 4 ->
                 IF reply = <<"O", "K", "0", "7">> THEN "HDMI1"
                 ELSE IF reply \in {<<"O", "K", "0", "2">>, <<"O", "K", "0", "5">>,
                                    <<"O", "K", "0", "8">>, <<"O", "K", "1", "1">>}
                 THEN SOURCE_MAP(reply)
                 ELSE PyNone
           [] OTHER -> PyNone

\* C13: a get_property that was not rejected decodes its reply so: the empty
\* reply gives the no-data result False, which is not BUSY; for PWR a reply
\* of 3 characters gives 'on' if the third is '1' and 'off' if it is '0', and
\* any other reply gives None; for SOURCE a reply of 4 characters gives its
\* entry of the source table ('OK07' gives 'HDMI1'), and None if it has none.
C13_ReplyDecoding ==
    \A c \in Callers :
       (pc[c] = "done" /\ op[c] = "get_property" /\ response[c] # NoLine) =>
          /\ result[c] = ClaimedProperty(cmd[c], response[c])
          /\ result[c] # BUSY

\* C13 witness: a SOURCE query has returned HDMI1 for the reply OK07
C13_Witness ==
    \E c \in Callers :
       /\ pc[c] = "done" /\ op[c] = "get_property" /\ cmd[c] = "SOURCE"
       /\ response[c] = <<"O", "K", "0", "7">> /\ result[c] = "HDMI1"

\* C14: a send_command whose acknowledgment is neither 'P' nor 'F' returns a
\* protocol error: a result that is not the success result, not Busy (from
\* the device or from the lock) and not the absence of a result.
C14_UnknownAckSurfaced ==
    \A c \in Callers :
       (pc[c] = "done" /\ op[c] = "send_command"
          /\ response[c] \notin {NoLine, <<"P">>, <<"F">>}) =>
          result[c] \notin {"OK", BUSY, PyFalse, PyNone}

\* C15: check() is idempotent while Unlocked: every check made in the
\* Unlocked state returns not-busy and leaves the locked flag, the class and
\* the start time as they are, so any number of them in a row do.
C15_CheckIdempotent ==
    [][ \A c \in Callers :
          (pc[c] = "check" /\ pc'[c] # "check" /\ ~isLocked) =>
             /\ pc'[c] \in {"setlock", "acquire"}
             /\ UNCHANGED <<isLocked, operation, timer>>
      ]_vars

\* C15 witness: after an earlier query was answered, a later check made in
\* the Unlocked state, at a later time, has returned not-busy and LockState
\* is as __initLock left it
C15_Witness ==
    \E c \in Callers :
       /\ pc[c] = "acquire" /\ op[c] = "get_property"
       /\ lastline = <<"O", "K", "1">> /\ now > 0
       /\ ~isLocked /\ timer = 0 /\ operation = PyFalse

\* C16: expiry is the only way out of Locked: the state goes from Locked to
\* Unlocked only in a check() that sees more time elapsed than the timeout of
\* the locked class; no event frame, reply frame or acknowledgment unlocks
\* it, and every check made before that, also after send_command returned
\* the device's failure, reports busy.
C16_OnlyExpiryUnlocks ==
    [][ /\ (isLocked /\ ~isLocked') =>
             \E c \in Callers :
                /\ pc[c] = "check" /\ pc'[c] \in {"setlock", "acquire"}
                /\ now - timer > ClaimedTimeout(operation)
        /\ \A c \in Callers :
              (pc[c] = "check" /\ pc'[c] # "check" /\ isLocked
                 /\ now - timer <= ClaimedTimeout(operation)) =>
                 pc'[c] = "done" /\ result'[c] = BusyResult(op[c]) /\ isLocked'
      ]_vars

\* C16 witness: the device answered a command with 'F', and a later query
\* is rejected as busy because the lock of that command is still pending
C16_Witness ==
    \E c \in Callers :
       /\ lastline = <<"F">> /\ isLocked
       /\ pc[c] = "done" /\ op[c] = "get_property" /\ result[c] = BUSY

\* C17: each reply frame is delivered at most once: the frame a
\* get_response returns is never one that a get_response has returned before
\* (the frame in the slot is marked when it is returned, and the mark is
\* dropped when the reader stores the next frame).
C17_DeliveredOnce ==
    [][ \A c \in Callers :
          (pc[c] = "fetch" /\ pc'[c] = "done") => ~delivered
      ]_vars

\* C19: the reply a round trip returns is a frame that the reader completed
\* after that round trip wrote its command, never a frame that was in the
\* slot before the write.
C19_ReplyAfterWrite ==
    [][ \A c \in Callers :
          (pc[c] = "fetch" /\ pc'[c] = "done") => fresh[c]
      ]_vars

\* C18: dispatch runs inline on the reader: while a handler is executing,
\* the reader reads no byte, completes no frame and signals no reply; and so
\* a handler that performs a round trip itself, once it has written its
\* command, never comes back from get_response.
C18_HandlerRoundTripHangs ==
    [][ /\ rpc \in HandlerPositions =>
             /\ Len(rx') >= Len(rx)
             /\ UNCHANGED <<output, lastline>>
             /\ recv_event' => recv_event
        /\ rpc \in {"h_wait", "h_clear", "h_fetch"} =>
             rpc' \in {"h_wait", "h_clear", "h_fetch"}
      ]_vars

\* C20 as claimed: with a fair reader, a transport that does not fail, no
\* blocking handler and one reply frame per command, every call eventually
\* returns, the serialization lock is eventually free again, and a caller
\* that waits for the lock eventually gets it.
C20_Progress ==
    \A c \in Callers :
       /\ (pc[c] = "check") ~> (pc[c] = "done")
       /\ (command_lock # 0) ~> (command_lock = 0)
       /\ (pc[c] = "acquire") ~> (pc[c] = "write")

\* C20 amended: under the same assumptions every call that has taken the
\* serialization lock eventually returns and releases it, so the lock is
\* free again and again for a caller that waits for it; and if moreover the
\* lock is granted to every caller that keeps waiting for it, every call
\* eventually returns.
C20_ProgressOfHolder ==
    \A c \in Callers :
       /\ (command_lock = c) ~> (pc[c] = "done" /\ command_lock # c)
       /\ (pc[c] = "acquire") ~> (command_lock = 0)
       /\ (\A d \in Callers : SF_vars(Acquire(d))) =>
             ((pc[c] = "check") ~> (pc[c] = "done"))

\* C20 witness: one call has returned with the device's acknowledgment and
\* the lock is free again while another caller is waiting for it
C20_Witness ==
    \E c, d \in Callers :
       /\ pc[c] = "done" /\ result[c] = "OK"
       /\ pc[d] = "acquire" /\ command_lock = 0

====
